---- MODULE Spec2Model ----
(***************************************************************************)
(* Verification model of the composition derivation engine:                *)
(*   - core/src/row.rs          : Row, the permutation algebra              *)
(*   - proj/src/derived_state.rs: the truth prover of DerivedState          *)
(* A Bell is its zero-based index (a natural number), a Stage is a length, *)
(* and a Row is the sequence of its Bells (position i of the Rust Vec is   *)
(* element i + 1 of the sequence).                                         *)
(***************************************************************************)
EXTENDS Integers, Sequences, FiniteSets, TLC

\* Longest bell sequence / text handed to a checked constructor.
MaxLen == 3
\* Largest Stage of the operands of the multiplication and the inversion.
MaxStage == 3
\* Largest Stage of the Rows whose closure is taken.
MaxClosureStage == 4
\* Cap on the iterations of the closure loop (never reached by the code as written).
MaxClosureLen == 12
\* Largest number of skeleton rows of a composition, over all its fragments.
MaxCompRows == 3
\* Largest number of false row groups handed to the range coalescer.
MaxGroups == 3
\* Largest Stage of the rows that are expanded and scored for music, next to
\* the examples on eight bells.
MaxMusicStage == 5
\* The longest undo history: room for an edit after an undo and for a redo in
\* the middle of the history.
MaxHistory == 3
\* The width of usize in bits: the smallest machine word fast_hash documents.
HashWidth == 16

VARIABLES
    src,        \* constructors: the argument handed to the constructor
    ctor,       \* constructors: which constructor ran ("none" before the call)
    made,       \* constructors: the RowResult it returned
    a, b, c,    \* algebra: the operand Rows
    op,         \* algebra: the operation that ran ("none" before the call)
    out,        \* algebra: its result
    cself,      \* closure: `self`
    crow,       \* closure: the local `row`
    closure,    \* closure: the local `closure`
    cpc,        \* closure: "idle" (not called), "loop", "done" (returned)
    skel,       \* derivation: the composition (part heads and fragments)
    derived,    \* derivation: what from_spec derived from it (None before the call)
    groups_in,  \* coalescer: the HashSet of false row groups handed over as a Vec
    coalesced,  \* coalescer: what coalesce_false_row_groups returned (None before)
    exp_row,    \* expansion: the skeleton row
    exp_part_heads, \* expansion: the part heads
    expanded,   \* expansion: the ExpandedRow made of them (None before the call)
    state,      \* editor: the State (its History and its cached full_state)
    called      \* editor: the last method called on the State and what it returned

ctorVars == <<src, ctor, made>>
algVars == <<a, b, c, op, out>>
closureVars == <<cself, crow, closure, cpc>>
deriveVars == <<skel, derived>>
coalesceVars == <<groups_in, coalesced>>
expandVars == <<exp_row, exp_part_heads, expanded>>
stateVars == <<state, called>>
vars == <<src, ctor, made, a, b, c, op, out, cself, crow, closure, cpc, skel, derived,
          groups_in, coalesced, exp_row, exp_part_heads, expanded, state, called>>

None == [kind |-> "None"]

-----------------------------------------------------------------------------
(* Stage and the results of Row construction                                *)

\* Row::stage
Stage(bells) == Len(bells)

\* RowResult::Ok
Ok(bells) == [kind |-> "Ok", row |-> bells]

\* InvalidRowError::DuplicateBell
DuplicateBell(bell) == [kind |-> "DuplicateBell", bell |-> bell]

\* InvalidRowError::BellOutOfStage
BellOutOfStage(bell, stage) == [kind |-> "BellOutOfStage", bell |-> bell, stage |-> stage]

\* Row::from_vec_unchecked
FromVecUnchecked(bells) == bells

\* Row::rounds
Rounds(stage) == FromVecUnchecked([i \in 1..stage |-> i - 1])

-----------------------------------------------------------------------------
(* Row::check_validity                                                      *)

\* The `for b in &self.bells` loop of check_validity: `i` is the position of
\* the bell looked at, `checklist` the bells seen so far.
RECURSIVE CheckLoop(_, _, _)
CheckLoop(bells, i, checklist) ==
    IF i > Len(bells)
    THEN Ok(bells)
    ELSE LET bell == bells[i] IN
         IF bell >= Len(checklist)
         THEN BellOutOfStage(bell, Stage(bells))
         ELSE IF checklist[bell + 1]
              THEN DuplicateBell(bell)
              ELSE CheckLoop(bells, i + 1, [checklist EXCEPT ![bell + 1] = TRUE])

\* Mutant: a bell that was already checked off is accepted.
RECURSIVE CheckLoop_NoDup(_, _, _)
CheckLoop_NoDup(bells, i, checklist) ==
    IF i > Len(bells)
    THEN Ok(bells)
    ELSE LET bell == bells[i] IN
         IF bell >= Len(checklist)
         THEN BellOutOfStage(bell, Stage(bells))
         ELSE CheckLoop_NoDup(bells, i + 1, [checklist EXCEPT ![bell + 1] = TRUE])

CheckValidity_NoDup(bells) ==
    CheckLoop_NoDup(bells, 1, [k \in 1..Stage(bells) |-> FALSE])

\* Mutant: duplicates anywhere in the sequence are reported before any bell
\* that is out of the stage.
CheckValidity_DupFirst(bells) ==
    LET dups == {i \in 1..Len(bells) : \E j \in 1..(i - 1) : bells[j] = bells[i]}
        first == CHOOSE i \in dups : \A j \in dups : i <= j
    IN  IF dups # {}
        THEN DuplicateBell(bells[first])
        ELSE CheckLoop(bells, 1, [k \in 1..Stage(bells) |-> FALSE])

CheckValidity(bells) ==
    CheckLoop(bells, 1, [k \in 1..Stage(bells) |-> FALSE])

-----------------------------------------------------------------------------
(* The checked constructors                                                 *)

\* The display names of the Bells: 1-9, 0 for the tenth, then letters.
BellNames == <<"1", "2", "3", "4", "5", "6", "7", "8", "9", "0", "E", "T">>

\* Bell::from_name: the Bell of a display character, or nothing.
BellFromName(ch) ==
    IF \E i \in 1..Len(BellNames) : BellNames[i] = ch
    THEN [kind |-> "Some", bell |-> (CHOOSE i \in 1..Len(BellNames) : BellNames[i] = ch) - 1]
    ELSE None

\* s.chars().filter_map(Bell::from_name)
RECURSIVE FilterMapBells(_)
FilterMapBells(s) ==
    IF s = <<>>
    THEN <<>>
    ELSE LET first == BellFromName(Head(s)) IN
         IF first.kind = "Some"
         THEN <<first.bell>> \o FilterMapBells(Tail(s))
         ELSE FilterMapBells(Tail(s))

\* Row::from_vec
FromVec(bells) == CheckValidity(bells)

\* Row::from_iter_checked
FromIterChecked(iter) == CheckValidity(iter)

\* Row::parse
Parse(s) == FromIterChecked(FilterMapBells(s))

-----------------------------------------------------------------------------
(* The inputs of the constructors                                           *)

\* All sequences over S of length at most n.
SeqsUpTo(S, n) == UNION {[1..k -> S] : k \in 0..n}

\* The doc examples of the constructors: 112345, 12745, 4214, 03721 (by index).
ExampleVecs ==
    { <<0, 0, 1, 2, 3, 4>>, <<0, 1, 6, 3, 4>>, <<3, 1, 0, 3>>, <<0, 3, 7, 2, 1>>,
      <<0, 3, 4, 2, 1>> }

ExampleTexts ==
    { <<"1", "1", "2", "3", "4", "5">>, <<"1", "2", "7", "4", "5">>,
      <<"1", "2", "5", "4", "3">>, <<"3", "|", "2", "|", "1">> }

\* Bell sequences: any bell up to one beyond the largest stage, so that every
\* length has out-of-stage bells.
BellVecs == SeqsUpTo(0..MaxLen, MaxLen) \cup ExampleVecs

TextChars == {BellNames[i] : i \in 1..(MaxLen + 1)} \cup {" "}

Texts == SeqsUpTo(TextChars, MaxLen) \cup ExampleTexts

\* The Rows of stage at most n: what the checked constructors accept.
RowsUpTo(n) == {s \in SeqsUpTo(0..n, n) : FromVec(s).kind = "Ok"}

-----------------------------------------------------------------------------
(* Multiplication                                                           *)

\* Result<(), IncompatibleStages>::Ok(())
OkUnit == [kind |-> "Ok"]

\* Mutant: the two stages are attached the wrong way round.
TestErr_Swapped(lhs_stage, rhs_stage) ==
    IF lhs_stage = rhs_stage
    THEN OkUnit
    ELSE [kind |-> "IncompatibleStages", lhs_stage |-> rhs_stage, rhs_stage |-> lhs_stage]

\* IncompatibleStages::test_err
TestErr(lhs_stage, rhs_stage) ==
    IF lhs_stage = rhs_stage
    THEN OkUnit
    ELSE [kind |-> "IncompatibleStages", lhs_stage |-> lhs_stage, rhs_stage |-> rhs_stage]

\* impl Index<usize> for Row: `&self.slice()[index]` panics when the index is
\* not below the length of the slice.
IndexPanics(row, index) == index >= Len(row)

\* impl Index<usize> for Row, for an index in bounds.
Index(row, index) == row[index + 1]

\* rhs.bells().map(|b| self[b.index()]).collect(), for indices in bounds.
RECURSIVE MapIndex(_, _)
MapIndex(self, rhs_bells) ==
    IF rhs_bells = <<>>
    THEN <<>>
    ELSE <<Index(self, Head(rhs_bells))>> \o MapIndex(self, Tail(rhs_bells))

\* Mutant: the operands are used the wrong way round (the LHS permutes the RHS).
MulUnchecked_Swapped(self, rhs) == FromVecUnchecked(MapIndex(rhs, self))

\* Mutant: the RHS is applied in the wrong direction: the bell at position i of
\* the LHS is put at position rhs[i] of the result.
MulUnchecked_Inv(self, rhs) ==
    FromVecUnchecked([p \in 1..Len(rhs) |->
        Index(self, (CHOOSE i \in 1..Len(rhs) : rhs[i] = p - 1) - 1)])

\* Row::mul_unchecked, when no index panics.
MulUnchecked(self, rhs) == FromVecUnchecked(MapIndex(self, rhs))

\* Row::mul_unchecked panics: some bell of the RHS indexes the LHS out of bounds.
MulUncheckedPanics(self, rhs) == \E i \in 1..Len(rhs) : IndexPanics(self, rhs[i])

\* impl Mul for &Row
Mul(self, rhs) ==
    LET err == TestErr(Stage(self), Stage(rhs)) IN
    IF err.kind # "Ok" THEN err ELSE Ok(MulUnchecked(self, rhs))

\* `(lhs * mid)? * rhs`: the product of a result and a Row, an error passed on.
ThenMul(res, rhs) == IF res.kind = "Ok" THEN Mul(res.row, rhs) ELSE res

\* `lhs * (mid * rhs)?`
MulThen(lhs, res) == IF res.kind = "Ok" THEN Mul(lhs, res.row) ELSE res

-----------------------------------------------------------------------------
(* Inversion                                                                *)

\* The `for (i, b) in self.bells().enumerate()` loop of `not`.
RECURSIVE NotLoop(_, _, _)
NotLoop(self, i, inv_bells) ==
    IF i > Len(self)
    THEN inv_bells
    ELSE NotLoop(self, i + 1, [inv_bells EXCEPT ![self[i] + 1] = i - 1])

\* Mutant: the bell is written at its own position (inv_bells[i] = b).
Not_Copy(self) == FromVecUnchecked([i \in 1..Len(self) |-> self[i]])

\* impl Not for &Row
Not(self) == FromVecUnchecked(NotLoop(self, 1, [k \in 1..Stage(self) |-> 0]))

-----------------------------------------------------------------------------
(* Closure                                                                  *)

\* Mutant: the position is counted from 1.
IsRounds_OneBased(row) == \A i \in 1..Len(row) : row[i] = i

\* Row::is_rounds
IsRounds(row) == \A i \in 1..Len(row) : row[i] = i - 1

-----------------------------------------------------------------------------
(* Row::fast_hash                                                           *)

\* The number of values of a usize.
WordModulus == 2 ^ HashWidth

\* A usize multiplication: the product when it fits the word; when it does
\* not, a panic in a build with overflow checks and the wrapped product in a
\* build without.
MulUsize(x, y, overflow_checks) ==
    IF x * y < WordModulus
    THEN [kind |-> "Some", value |-> x * y]
    ELSE IF overflow_checks
         THEN [kind |-> "Panic"]
         ELSE [kind |-> "Some", value |-> (x * y) % WordModulus]

\* The `for b in self.slice()` loop of fast_hash, from position i on.
RECURSIVE FastHashLoop(_, _, _, _, _)
FastHashLoop(bells, i, accum, multiplier, overflow_checks) ==
    IF i > Len(bells)
    THEN [kind |-> "Hash", value |-> accum]
    ELSE LET term == MulUsize(bells[i], multiplier, overflow_checks) IN
         IF term.kind = "Panic" THEN term
         ELSE LET acc == MulUsize(accum, term.value, overflow_checks) IN
              IF acc.kind = "Panic" THEN acc
              ELSE LET mult == MulUsize(multiplier, Stage(bells), overflow_checks) IN
                   IF mult.kind = "Panic" THEN mult
                   ELSE FastHashLoop(bells, i + 1, acc.value, mult.value, overflow_checks)

\* Row::fast_hash: `accum` starts at 0 and `multiplier` at 1.
FastHash(self, overflow_checks) == FastHashLoop(self, 1, 0, 1, overflow_checks)

-----------------------------------------------------------------------------
(* The idle values of the variables a specification does not use            *)

CtorIdle == src = None /\ ctor = "none" /\ made = None

AlgIdle == a = <<>> /\ b = <<>> /\ c = <<>> /\ op = "none" /\ out = None

ClosureIdle == cself = <<>> /\ crow = <<>> /\ closure = <<>> /\ cpc = "idle"

DeriveIdle == skel = None /\ derived = None

CoalesceIdle == groups_in = {} /\ coalesced = None

ExpandIdle == exp_row = <<>> /\ exp_part_heads = <<>> /\ expanded = None

StateIdle == state = None /\ called = None

-----------------------------------------------------------------------------
(* Spec: the checked constructors, each applied to one argument             *)

VecArg(bells) == [kind |-> "vec", bells |-> bells]

TextArg(chars) == [kind |-> "text", chars |-> chars]

CtorArgs == {VecArg(v) : v \in BellVecs} \cup {TextArg(t) : t \in Texts}

Init ==
    /\ src \in CtorArgs
    /\ ctor = "none"
    /\ made = None
    /\ AlgIdle
    /\ ClosureIdle
    /\ DeriveIdle
    /\ CoalesceIdle
    /\ ExpandIdle
    /\ StateIdle

\* Row::from_vec(bells)
CallFromVec ==
    /\ ctor = "none"
    /\ src.kind = "vec"
    /\ ctor' = "from_vec"
    /\ made' = FromVec(src.bells)
    /\ UNCHANGED <<src, algVars, closureVars, deriveVars, coalesceVars, expandVars, stateVars>>

\* Row::from_iter_checked(bells.into_iter())
CallFromIterChecked ==
    /\ ctor = "none"
    /\ src.kind = "vec"
    /\ ctor' = "from_iter_checked"
    /\ made' = FromIterChecked(src.bells)
    /\ UNCHANGED <<src, algVars, closureVars, deriveVars, coalesceVars, expandVars, stateVars>>

\* Row::parse(s)
CallParse ==
    /\ ctor = "none"
    /\ src.kind = "text"
    /\ ctor' = "parse"
    /\ made' = Parse(src.chars)
    /\ UNCHANGED <<src, algVars, closureVars, deriveVars, coalesceVars, expandVars, stateVars>>

Next == CallFromVec \/ CallFromIterChecked \/ CallParse

Spec == Init /\ [][Next]_vars

-----------------------------------------------------------------------------
(* SpecAlg: multiplication and inversion, applied to operand Rows           *)

\* Doc examples: 13425678, 43217568, 4321, 13475628, 135246 (Queens), 1342.
ExampleRows ==
    { <<0, 2, 3, 1, 4, 5, 6, 7>>, <<3, 2, 1, 0, 6, 4, 5, 7>>, <<3, 2, 1, 0>>,
      <<0, 2, 3, 6, 4, 5, 1, 7>>, <<0, 2, 4, 1, 3, 5>>, <<0, 2, 3, 1>> }

\* The operands: Rows, as the checked constructors make them.
AlgRows ==
    RowsUpTo(MaxStage) \cup {r \in ExampleRows : FromVec(r).kind = "Ok"}

AlgInit ==
    /\ a \in AlgRows
    /\ b \in AlgRows
    /\ c \in {r \in AlgRows : Stage(r) = Stage(b)}
    /\ op = "none"
    /\ out = None
    /\ CtorIdle
    /\ ClosureIdle
    /\ DeriveIdle
    /\ CoalesceIdle
    /\ ExpandIdle
    /\ StateIdle

\* &a * &b
CallMul ==
    /\ op = "none"
    /\ op' = "mul"
    /\ out' = Mul(a, b)
    /\ UNCHANGED <<a, b, c, ctorVars, closureVars, deriveVars, coalesceVars, expandVars, stateVars>>

\* a.mul_unchecked(&b): a Row, or the panic of the slice index.
CallMulUnchecked ==
    /\ op = "none"
    /\ op' = "mul_unchecked"
    /\ out' = IF MulUncheckedPanics(a, b)
              THEN [kind |-> "Panic"]
              ELSE [kind |-> "Row", row |-> MulUnchecked(a, b)]
    /\ UNCHANGED <<a, b, c, ctorVars, closureVars, deriveVars, coalesceVars, expandVars, stateVars>>

\* !&a
CallNot ==
    /\ op = "none"
    /\ op' = "not"
    /\ out' = [kind |-> "Row", row |-> Not(a)]
    /\ UNCHANGED <<a, b, c, ctorVars, closureVars, deriveVars, coalesceVars, expandVars, stateVars>>

\* (a * b)? * c and a * (b * c)?
CallMulThree ==
    /\ op = "none"
    /\ op' = "mul_three"
    /\ out' = [kind |-> "Pair",
               left |-> ThenMul(Mul(a, b), c),
               right |-> MulThen(a, Mul(b, c))]
    /\ UNCHANGED <<a, b, c, ctorVars, closureVars, deriveVars, coalesceVars, expandVars, stateVars>>

\* a.fast_hash() and b.fast_hash(), in one build.
CallFastHash ==
    /\ op = "none"
    /\ op' = "fast_hash"
    /\ \E overflow_checks \in BOOLEAN :
         out' = [kind |-> "Hashes",
                 left |-> FastHash(a, overflow_checks),
                 right |-> FastHash(b, overflow_checks)]
    /\ UNCHANGED <<a, b, c, ctorVars, closureVars, deriveVars, coalesceVars, expandVars, stateVars>>

AlgNext == CallMul \/ CallMulUnchecked \/ CallNot \/ CallMulThree \/ CallFastHash

SpecAlg == AlgInit /\ [][AlgNext]_vars

-----------------------------------------------------------------------------
(* SpecClosure: Row::closure, one loop iteration per step                   *)

\* Doc example: 18234567.
ClosureExample == <<0, 7, 1, 2, 3, 4, 5, 6>>

ClosureRows ==
    RowsUpTo(MaxClosureStage) \cup {r \in {ClosureExample} : FromVec(r).kind = "Ok"}

ClosureInit ==
    /\ cself \in ClosureRows
    /\ crow = <<>>
    /\ closure = <<>>
    /\ cpc = "idle"
    /\ CtorIdle
    /\ AlgIdle
    /\ DeriveIdle
    /\ CoalesceIdle
    /\ ExpandIdle
    /\ StateIdle

\* let mut closure = Vec::new(); let mut row = self.clone();
ClosureCall ==
    /\ cpc = "idle"
    /\ cpc' = "loop"
    /\ closure' = <<>>
    /\ crow' = cself
    /\ UNCHANGED <<cself, ctorVars, algVars, deriveVars, coalesceVars, expandVars, stateVars>>

\* Mutant: the check for rounds comes before the push.
ClosureLoop_CheckFirst ==
    /\ cpc = "loop"
    /\ Len(closure) < MaxClosureLen
    /\ IF IsRounds(crow)
       THEN /\ cpc' = "done"
            /\ UNCHANGED <<crow, closure>>
       ELSE /\ closure' = Append(closure, crow)
            /\ cpc' = "loop"
            /\ crow' = MulUnchecked(crow, cself)
    /\ UNCHANGED <<cself, ctorVars, algVars, deriveVars, coalesceVars, expandVars, stateVars>>

\* One iteration of the `loop`: push, return on rounds, else multiply.
ClosureLoop ==
    /\ cpc = "loop"
    /\ Len(closure) < MaxClosureLen
    /\ closure' = Append(closure, crow)
    /\ IF IsRounds(crow)
       THEN /\ cpc' = "done"
            /\ crow' = crow
       ELSE /\ cpc' = "loop"
            /\ crow' = MulUnchecked(crow, cself)
    /\ UNCHANGED <<cself, ctorVars, algVars, deriveVars, coalesceVars, expandVars, stateVars>>

ClosureNext == ClosureCall \/ ClosureLoop

SpecClosure == ClosureInit /\ [][ClosureNext]_vars

\* The call runs to completion: the loop is never suspended.
FairClosure == SpecClosure /\ WF_vars(ClosureLoop)

-----------------------------------------------------------------------------
(* The truth prover of DerivedState                                         *)

\* RowOrigin::new
RowOrigin(part, frag, row) == [part |-> part, frag |-> frag, row |-> row]

\* RowLocation::new
RowLocation(frag, row) == [frag |-> frag, row |-> row]

\* Mutant: the location keeps the part of the origin.
LocationFrom_KeepPart(o) == [frag |-> o.frag, row |-> o.row, part |-> o.part]

\* impl From<RowOrigin> for RowLocation
LocationFrom(o) == RowLocation(o.frag, o.row)

\* Ord of Row (derived): lexicographic over the bells; r1 <= r2.
RECURSIVE RowLe(_, _)
RowLe(r1, r2) ==
    IF r1 = <<>> THEN TRUE
    ELSE IF r2 = <<>> THEN FALSE
    ELSE IF Head(r1) < Head(r2) THEN TRUE
    ELSE IF Head(r1) > Head(r2) THEN FALSE
    ELSE RowLe(Tail(r1), Tail(r2))

\* Ord of RowLocation (derived): by frag index and then row index; l1 <= l2.
LocLe(l1, l2) == l1.frag < l2.frag \/ (l1.frag = l2.frag /\ l1.row <= l2.row)

\* usize::min, usize::max, isize::abs
Min(x, y) == IF x <= y THEN x ELSE y

Max(x, y) == IF x >= y THEN x ELSE y

Abs(x) == IF x >= 0 THEN x ELSE -x

\* bells.rev()
Reverse(bells) == [i \in 1..Len(bells) |-> bells[Len(bells) + 1 - i]]

\* The number of leading bells that step by `step` from each to the next,
\* the first k of them being known to.
RECURSIVE StepLen(_, _, _)
StepLen(bells, step, k) ==
    IF k < Len(bells) /\ bells[k + 1] - bells[k] = step
    THEN StepLen(bells, step, k + 1)
    ELSE k

\* run_len: the length of the run at the start of the bells, a run being
\* consecutive bells in ascending or in descending order (81234567 has a back
\* run of 7 and 21345678 one of 6).
RunLen(bells) ==
    IF Len(bells) < 2
    THEN Len(bells)
    ELSE IF bells[2] - bells[1] = 1 THEN StepLen(bells, 1, 2)
         ELSE IF bells[2] - bells[1] = -1 THEN StepLen(bells, -1, 2)
         ELSE 1

\* music[from..to].iter_mut().for_each(|m| m.push(part)), `from` inclusive
\* and `to` exclusive, counted from 0.
PushPart(music, from, to, part) ==
    [i \in 1..Len(music) |->
        IF from < i /\ i <= to THEN Append(music[i], part) ELSE music[i]]

\* Mutant: the back run is highlighted from stage - run_len_b, whatever the
\* front run covers.
MusicOfPart_NoMax(music, part, r, stage) ==
    LET run_len_f == RunLen(r)
        front == IF run_len_f >= 4 THEN PushPart(music, 0, run_len_f, part) ELSE music
        run_len_b == RunLen(Reverse(r))
    IN  IF run_len_b >= 4
        THEN PushPart(front, stage - run_len_b, stage, part)
        ELSE front

\* The body of the `for (part, r) in all_rows.iter().enumerate()` loop of
\* calculate_music.
MusicOfPart(music, part, r, stage) ==
    LET run_len_f == RunLen(r)
        front == IF run_len_f >= 4 THEN PushPart(music, 0, run_len_f, part) ELSE music
        run_len_b == RunLen(Reverse(r))
    IN  IF run_len_b >= 4
        THEN PushPart(front, Max(stage - run_len_b, run_len_f), stage, part)
        ELSE front

\* The loop of calculate_music, from `part` on.
RECURSIVE MusicLoop(_, _, _, _)
MusicLoop(all_rows, part, music, stage) ==
    IF part >= Len(all_rows)
    THEN music
    ELSE MusicLoop(all_rows, part + 1,
                   MusicOfPart(music, part, all_rows[part + 1], stage), stage)

\* ExpandedRow::calculate_music
CalculateMusic(all_rows, stage) ==
    MusicLoop(all_rows, 0, [i \in 1..stage |-> <<>>], stage)

\* Mutant: the skeleton row is multiplied on the left of the part head.
ExpandRows_RowFirst(row, part_heads) ==
    [p \in 1..Len(part_heads) |-> Mul(row, part_heads[p]).row]

\* The rows of ExpandedRow::new: part_heads.iter().map(|ph| ph * row).collect()
ExpandRows(row, part_heads) ==
    [p \in 1..Len(part_heads) |-> Mul(part_heads[p], row).row]

\* ExpandedRow::new (without the call and method strings and the lead end
\* flag, which are stored as given)
ExpandedRowNew(row, part_heads, is_proved) ==
    LET all_rows == ExpandRows(row, part_heads) IN
    [is_proved |-> is_proved,
     rows |-> all_rows,
     music_highlights |-> CalculateMusic(all_rows, Stage(row))]

\* spec.expand(): one ExpandedRow per skeleton row of every fragment.
Expand(skeleton) ==
    [f \in 1..Len(skeleton.frags) |->
        [r \in 1..Len(skeleton.frags[f]) |->
            ExpandedRowNew(skeleton.frags[f][r].row, skeleton.part_heads,
                           skeleton.frags[f][r].is_proved)]]

\* Mutant: the row is flattened whether or not it should be proven.
FlattenRow_All(frag_index, row_index, expanded_row) ==
    [p \in 1..Len(expanded_row.rows) |->
        [origin |-> RowOrigin(p - 1, frag_index, row_index),
         row |-> expanded_row.rows[p]]]

\* The body of the inner loop of flatten_proved_rows: what one ExpandedRow
\* adds to flattened_rows.
FlattenRow(frag_index, row_index, expanded_row) ==
    IF ~expanded_row.is_proved
    THEN <<>>
    ELSE [p \in 1..Len(expanded_row.rows) |->
            [origin |-> RowOrigin(p - 1, frag_index, row_index),
             row |-> expanded_row.rows[p]]]

\* The loop over the rows of one fragment, from row_index on.
RECURSIVE FlattenFrag(_, _, _)
FlattenFrag(rows, frag_index, row_index) ==
    IF row_index >= Len(rows)
    THEN <<>>
    ELSE FlattenRow(frag_index, row_index, rows[row_index + 1])
             \o FlattenFrag(rows, frag_index, row_index + 1)

\* The loop over the fragments, from frag_index on.
RECURSIVE FlattenFrags(_, _)
FlattenFrags(generated_rows, frag_index) ==
    IF frag_index >= Len(generated_rows)
    THEN <<>>
    ELSE FlattenFrag(generated_rows[frag_index + 1], frag_index, 0)
             \o FlattenFrags(generated_rows, frag_index + 1)

\* The (frag, row) positions of the ExpandedRows, counted from 1.
Positions(generated_rows) ==
    UNION {{<<f, r>> : r \in 1..Len(generated_rows[f])} : f \in 1..Len(generated_rows)}

\* DerivedState::flatten_proved_rows: part_len counts the proved ExpandedRows.
FlattenProvedRows(generated_rows) ==
    [flattened_rows |-> FlattenFrags(generated_rows, 0),
     part_len |-> Cardinality({fr \in Positions(generated_rows) :
                                  generated_rows[fr[1]][fr[2]].is_proved})]

\* One step of a stable sort: x goes after every element that is <= x.
InsertByRow(sorted, x) ==
    LET k == Cardinality({i \in 1..Len(sorted) : RowLe(sorted[i].row, x.row)})
    IN  SubSeq(sorted, 1, k) \o <<x>> \o SubSeq(sorted, k + 1, Len(sorted))

\* flattened_rows.sort_by(|(_, r1), (_, r2)| r1.cmp(r2)): a stable sort by Row.
RECURSIVE SortByRow(_)
SortByRow(rows) ==
    IF rows = <<>>
    THEN <<>>
    ELSE InsertByRow(SortByRow(SubSeq(rows, 1, Len(rows) - 1)), rows[Len(rows)])

InsertLoc(sorted, x) ==
    LET k == Cardinality({i \in 1..Len(sorted) : LocLe(sorted[i], x)})
    IN  SubSeq(sorted, 1, k) \o <<x>> \o SubSeq(sorted, k + 1, Len(sorted))

\* current_false_row_group.sort()
RECURSIVE SortLocs(_)
SortLocs(locs) ==
    IF locs = <<>>
    THEN <<>>
    ELSE InsertLoc(SortLocs(SubSeq(locs, 1, Len(locs) - 1)), locs[Len(locs)])

\* The rows as gen_false_row_groups sweeps them.
SortedForSweep(flattened_rows) == SortByRow(flattened_rows)

\* The sweep of gen_false_row_groups over the sorted rows, from position i on:
\* false_rows is the HashSet, group the current_false_row_group, last_row the
\* Row of the previous iteration (None before the first).
RECURSIVE Sweep(_, _, _, _, _, _)
Sweep(sorted, i, false_rows, group, last_row, num_false_rows) ==
    IF i > Len(sorted)
    THEN IF Len(group) > 1
         THEN [false_rows |-> false_rows \cup {SortLocs(group)},
               num_false_rows |-> num_false_rows + Len(group)]
         ELSE [false_rows |-> false_rows, num_false_rows |-> num_false_rows]
    ELSE LET o == sorted[i].origin
             r == sorted[i].row
             new_run == last_row.kind = "Some" /\ last_row.row # r
             found == new_run /\ Len(group) > 1
         IN  Sweep(sorted, i + 1,
                   IF found THEN false_rows \cup {SortLocs(group)} ELSE false_rows,
                   Append(IF new_run THEN <<>> ELSE group, LocationFrom(o)),
                   [kind |-> "Some", row |-> r],
                   IF found THEN num_false_rows + Len(group) ELSE num_false_rows)

\* DerivedState::gen_false_row_groups: the set of false row groups (the
\* HashSet, before it is turned into a Vec) and the number of false rows.
GenFalseRowGroups(flattened_rows) ==
    Sweep(SortedForSweep(flattened_rows), 1, {}, <<>>, None, 0)

\* false_rows.into_iter().collect::<Vec<_>>(): the elements of the HashSet in
\* the order its iterator yields them, which is any order.
RECURSIVE IntoIter(_)
IntoIter(set) ==
    IF set = {}
    THEN {<<>>}
    ELSE UNION {{<<x>> \o rest : rest \in IntoIter(set \ {x})} : x \in set}

-----------------------------------------------------------------------------
(* The range coalescer of DerivedState                                      *)

\* Ord of Vec<RowLocation>: lexicographic, a prefix before its extensions;
\* g1 <= g2.
RECURSIVE GroupLe(_, _)
GroupLe(g1, g2) ==
    IF g1 = <<>> THEN TRUE
    ELSE IF g2 = <<>> THEN FALSE
    ELSE IF Head(g1) = Head(g2) THEN GroupLe(Tail(g1), Tail(g2))
    ELSE LocLe(Head(g1), Head(g2))

InsertGroup(sorted, x) ==
    LET k == Cardinality({i \in 1..Len(sorted) : GroupLe(sorted[i], x)})
    IN  SubSeq(sorted, 1, k) \o <<x>> \o SubSeq(sorted, k + 1, Len(sorted))

\* Mutant: the Vec is left in the order the HashSet yielded it.
SortGroups_Unsorted(groups) == groups

\* false_rows.sort()
RECURSIVE SortGroups(_)
SortGroups(groups) ==
    IF groups = <<>>
    THEN <<>>
    ELSE InsertGroup(SortGroups(SubSeq(groups, 1, Len(groups) - 1)), groups[Len(groups)])

\* FalseRowRange { start, end, group }
FalseRowRange(start, end, group) == [start |-> start, end |-> end, group |-> group]

\* Mutant: a row index must be one above that of the last group.
IsAdjacentToLast_Upward(group, last_group) ==
    /\ Len(group) = Len(last_group)
    /\ \A k \in 1..Len(group) :
         /\ group[k].frag = last_group[k].frag
         /\ group[k].row - last_group[k].row = 1

\* Mutant: the fragments of the paired RowLocations are not compared.
IsAdjacentToLast_AnyFrag(group, last_group) ==
    /\ Len(group) = Len(last_group)
    /\ \A k \in 1..Len(group) : Abs(group[k].row - last_group[k].row) = 1

\* is_adjacent_to_last
IsAdjacentToLast(group, last_group) ==
    /\ Len(group) = Len(last_group)
    /\ \A k \in 1..Len(group) :
         /\ group[k].frag = last_group[k].frag
         /\ Abs(group[k].row - last_group[k].row) = 1

\* The assertions of add_ranges: one of them fails.
AddRangesPanics(start, end) ==
    \/ Len(start) # Len(end)
    \/ \E k \in 1..Len(start) : start[k].frag # end[k].frag

\* Mutant: a fragment gets at most one range of a group.
PushRange_OncePerFrag(ranges_per_frag, frag, false_row_range) ==
    IF frag \in DOMAIN ranges_per_frag
    THEN IF \E n \in 1..Len(ranges_per_frag[frag]) :
                ranges_per_frag[frag][n].group = false_row_range.group
         THEN ranges_per_frag
         ELSE [ranges_per_frag EXCEPT ![frag] = Append(@, false_row_range)]
    ELSE ranges_per_frag @@ (frag :> <<false_row_range>>)

\* ranges_per_frag.entry(frag).or_insert_with(..).push(false_row_range)
PushRange(ranges_per_frag, frag, false_row_range) ==
    IF frag \in DOMAIN ranges_per_frag
    THEN [ranges_per_frag EXCEPT ![frag] = Append(@, false_row_range)]
    ELSE ranges_per_frag @@ (frag :> <<false_row_range>>)

\* The `for (start_loc, end_loc) in start.iter().zip(end)` loop of add_ranges,
\* from pair k on.
RECURSIVE AddRangesLoop(_, _, _, _, _)
AddRangesLoop(ranges_per_frag, start, end, group_id, k) ==
    IF k > Len(start)
    THEN ranges_per_frag
    ELSE AddRangesLoop(
             PushRange(ranges_per_frag, start[k].frag,
                       FalseRowRange(Min(start[k].row, end[k].row),
                                     Max(start[k].row, end[k].row),
                                     group_id)),
             start, end, group_id, k + 1)

\* DerivedState::add_ranges, when no assertion fails.
AddRanges(ranges_per_frag, start, end, group_id) ==
    AddRangesLoop(ranges_per_frag, start, end, group_id, 1)

\* The `for group in iter` loop of coalesce_false_row_groups, from group i of
\* the sorted groups on, and the add_ranges call after it.
RECURSIVE CoalesceLoop(_, _, _, _, _, _)
CoalesceLoop(sorted, i, first_group_in_meta_group, last_group, group_id, ranges_by_frag) ==
    IF i > Len(sorted)
    THEN IF AddRangesPanics(first_group_in_meta_group, last_group)
         THEN [kind |-> "Panic"]
         ELSE [kind |-> "Coalesced",
               ranges_by_frag |-> AddRanges(ranges_by_frag, first_group_in_meta_group,
                                            last_group, group_id),
               group_id |-> group_id]
    ELSE IF IsAdjacentToLast(sorted[i], last_group)
         THEN CoalesceLoop(sorted, i + 1, first_group_in_meta_group, sorted[i],
                           group_id, ranges_by_frag)
         ELSE IF AddRangesPanics(first_group_in_meta_group, last_group)
              THEN [kind |-> "Panic"]
              ELSE CoalesceLoop(sorted, i + 1, sorted[i], sorted[i], group_id + 1,
                                AddRanges(ranges_by_frag, first_group_in_meta_group,
                                          last_group, group_id))

\* DerivedState::coalesce_false_row_groups: the ranges of every fragment that
\* has any (the HashMap, a function on those fragment indices) and
\* `group_id + 1`.
CoalesceFalseRowGroups(false_rows) ==
    LET sorted == SortGroups(false_rows)
        looped == IF sorted = <<>>
                  THEN [kind |-> "Coalesced", ranges_by_frag |-> <<>>, group_id |-> 0]
                  ELSE CoalesceLoop(sorted, 2, sorted[1], sorted[1], 0, <<>>)
    IN  IF looped.kind = "Panic"
        THEN looped
        ELSE [kind |-> "Coalesced",
              ranges_by_frag |-> looped.ranges_by_frag,
              num_false_groups |-> looped.group_id + 1]

-----------------------------------------------------------------------------
(* The fragment linker of DerivedState                                      *)

\* FragLink { from, to, group }
FragLink(from, to, group) == [from |-> from, to |-> to, group |-> group]

\* FragLinkGroups::default()
FragLinkGroupsDefault == [link_group_top |-> None, link_group_bottom |-> None]

\* Some(group)
SomeGroup(group) == [kind |-> "Some", group |-> group]

\* link_groups.entry(row).or_insert(link_groups.len()): the map afterwards.
EntryOrInsert(link_groups, row) ==
    IF row \in DOMAIN link_groups
    THEN link_groups
    ELSE link_groups @@ (row :> Cardinality(DOMAIN link_groups))

\* Mutant: the first row of `f` is compared, not its leftover row.
LeftoverRowOf_First(f) == f[1].rows[1]

\* &f.last().unwrap().rows[0]
LeftoverRowOf(f) == f[Len(f)].rows[1]

\* &g[0].rows[0]
FirstRowOf(g) == g[1].rows[1]

\* Mutant: every link gets a group of its own.
LinkGroupOf_Fresh(link_groups, frag_links, row) == Len(frag_links)

\* `group`, the id that link_groups holds for the row after entry().or_insert().
LinkGroupOf(link_groups, frag_links, row) == EntryOrInsert(link_groups, row)[row]

\* The body of the inner loop of gen_frag_links for the pair (i, j): `links`
\* holds link_groups, frag_links and frag_link_groups.
LinkPair(generated_rows, i, j, links) ==
    LET leftover_row_of_f == LeftoverRowOf(generated_rows[i + 1])
        first_row_of_g == FirstRowOf(generated_rows[j + 1])
        group == LinkGroupOf(links.link_groups, links.frag_links, leftover_row_of_f)
        bottom == [links.frag_link_groups EXCEPT
                      ![i + 1].link_group_bottom = SomeGroup(group)]
    IN  IF leftover_row_of_f = first_row_of_g
        THEN [link_groups |-> EntryOrInsert(links.link_groups, leftover_row_of_f),
              frag_links |-> Append(links.frag_links, FragLink(i, j, group)),
              frag_link_groups |-> [bottom EXCEPT ![j + 1].link_group_top = SomeGroup(group)]]
        ELSE links

\* The two nested loops of gen_frag_links, from the pair (i, j) on.
RECURSIVE LinkLoop(_, _, _, _)
LinkLoop(generated_rows, i, j, links) ==
    IF i >= Len(generated_rows)
    THEN links
    ELSE IF j >= Len(generated_rows)
         THEN LinkLoop(generated_rows, i + 1, 0, links)
         ELSE LinkLoop(generated_rows, i, j + 1, LinkPair(generated_rows, i, j, links))

\* DerivedState::gen_frag_links, for fragments that each hold a row and for at
\* least one part.
GenFragLinks(generated_rows) ==
    LinkLoop(generated_rows, 0, 0,
             [link_groups |-> <<>>,
              frag_links |-> <<>>,
              frag_link_groups |-> [f \in 1..Len(generated_rows) |-> FragLinkGroupsDefault]])

-----------------------------------------------------------------------------
(* DerivedState::from_spec                                                  *)

\* ranges_by_frag.remove(&i).unwrap_or_default()
RangesOfFrag(ranges_by_frag, i) ==
    IF i \in DOMAIN ranges_by_frag THEN ranges_by_frag[i] ELSE <<>>

\* The DerivedState that from_spec compiles once the HashSet of false row
\* groups has been turned into the Vec false_rows. Next to the fields of the
\* struct (annot_frags without the position and the muting of the Frag, and
\* with the exp_rows of all of them in generated_rows) it keeps part_len, the
\* HashSet and num_false_rows.
CompileDerivedState(generated_rows, part_len, groups, false_rows) ==
    LET ranged == CoalesceFalseRowGroups(false_rows)
        links == GenFragLinks(generated_rows)
    IN  IF ranged.kind = "Panic"
        THEN ranged
        ELSE [kind |-> "DerivedState",
              generated_rows |-> generated_rows,
              part_len |-> part_len,
              false_rows |-> groups.false_rows,
              num_false_rows |-> groups.num_false_rows,
              frag_links |-> links.frag_links,
              annot_frags |->
                  [f \in 1..Len(generated_rows) |->
                      [false_row_ranges |-> RangesOfFrag(ranged.ranges_by_frag, f - 1),
                       link_groups |-> links.frag_link_groups[f]]],
              stats |-> [part_len |-> part_len,
                         num_false_rows |-> groups.num_false_rows,
                         num_false_groups |-> ranged.num_false_groups]]

\* DerivedState::from_spec: the DerivedStates it can return, one for every
\* order in which the HashSet of false row groups can be iterated.
FromSpec(skeleton) ==
    LET generated_rows == Expand(skeleton)
        flat == FlattenProvedRows(generated_rows)
        groups == GenFalseRowGroups(flat.flattened_rows)
    IN  {CompileDerivedState(generated_rows, flat.part_len, groups, false_rows) :
            false_rows \in IntoIter(groups.false_rows)}

-----------------------------------------------------------------------------
(* SpecProve: from_spec, applied to one composition                         *)

\* The skeleton rows of the compositions: the Rows of stage 3, the smallest
\* stage at which rows do not all commute.
SkelRows == {r \in RowsUpTo(3) : Stage(r) = 3}

\* The fragments of a composition of n skeleton rows whose fragments end at
\* the positions `ends`, from position `start` on.
RECURSIVE SplitFrags(_, _, _)
SplitFrags(rows, start, ends) ==
    IF start > Len(rows)
    THEN <<>>
    ELSE LET end == CHOOSE e \in ends : e >= start /\ \A x \in ends : x >= start => e <= x
         IN  <<SubSeq(rows, start, end)>> \o SplitFrags(rows, end + 1, ends)

\* The skeleton rows of a composition: a Row and the "should be proven" flag
\* each; the last (leftover) row of a fragment is never proved.
SkelRowsOf(n, ends, row_of, proved) ==
    [i \in 1..n |-> [row |-> row_of[i],
                     is_proved |-> IF i \in ends THEN FALSE ELSE proved[i]]]

\* Row::closure as a function: the loop from `row` on.
RECURSIVE ClosureFrom(_, _)
ClosureFrom(self, row) ==
    IF IsRounds(row) THEN <<row>> ELSE <<row>> \o ClosureFrom(self, MulUnchecked(row, self))

\* The part-head lists: the closures of 123, 213 and 231 (one, two and three
\* parts, each a group), a group with rounds first, a list that is not closed
\* under multiplication, and a list that holds a Row twice.
PartHeadLists ==
    {ClosureFrom(r, r) : r \in {<<0, 1, 2>>, <<1, 0, 2>>, <<1, 2, 0>>}}
        \cup { <<<<0, 1, 2>>, <<1, 2, 0>>, <<2, 0, 1>>>>,
               <<<<1, 2, 0>>, <<1, 0, 2>>>>,
               <<<<1, 0, 2>>, <<1, 0, 2>>>> }

\* The skeleton rows of a composition of n rows: any SkelRows for up to three
\* rows; a longer composition starts from rounds (multiplying every skeleton
\* row on the right by one Row maps the realized rows one-to-one, so every
\* composition has the falseness and the links of one that starts from rounds).
SkelRowChoices(n) ==
    {row_of \in [1..n -> SkelRows] : n <= 3 \/ row_of[1] = Rounds(3)}

ProveInit ==
    /\ \E ph \in PartHeadLists, n \in 0..MaxCompRows :
         \E ends \in {e \in SUBSET (1..n) : n = 0 \/ n \in e} :
           \E row_of \in SkelRowChoices(n), proved \in [(1..n) \ ends -> BOOLEAN] :
             skel = [part_heads |-> ph,
                     frags |-> SplitFrags(SkelRowsOf(n, ends, row_of, proved), 1, ends)]
    /\ derived = None
    /\ CtorIdle
    /\ AlgIdle
    /\ ClosureIdle
    /\ CoalesceIdle
    /\ ExpandIdle
    /\ StateIdle

\* DerivedState::from_spec(&spec)
CallFromSpec ==
    /\ derived = None
    /\ derived' \in FromSpec(skel)
    /\ UNCHANGED <<skel, ctorVars, algVars, closureVars, coalesceVars, expandVars, stateVars>>

ProveNext == CallFromSpec

SpecProve == ProveInit /\ [][ProveNext]_vars

-----------------------------------------------------------------------------
(* SpecCoalesce: coalesce_false_row_groups, applied to one set of groups    *)

\* The RowLocations of the groups: four rows of fragment 0, two of fragment 1.
CoalesceLocs ==
    {RowLocation(0, r) : r \in 0..3} \cup {RowLocation(1, r) : r \in 0..1}

\* The groups: sorted lists of one or two RowLocations (a RowLocation is
\* listed twice when two parts of it hold the same Row).
CoalesceGroups ==
    {<<l>> : l \in CoalesceLocs}
        \cup {pair \in CoalesceLocs \X CoalesceLocs : LocLe(pair[1], pair[2])}

\* A composition of seven rows on four bells in two parts (part heads 1234
\* and 2341): 4123, 2134, 2341, 1243, 2134, 1234 and the leftover 1324. Row 0
\* is false against row 5, row 1 against row 4 and row 2 against row 5.
ExampleComp ==
    [part_heads |-> << <<0, 1, 2, 3>>, <<1, 2, 3, 0>> >>,
     frags |-> << << [row |-> <<3, 0, 1, 2>>, is_proved |-> TRUE],
                     [row |-> <<1, 0, 2, 3>>, is_proved |-> TRUE],
                     [row |-> <<1, 2, 3, 0>>, is_proved |-> TRUE],
                     [row |-> <<0, 1, 3, 2>>, is_proved |-> TRUE],
                     [row |-> <<1, 0, 2, 3>>, is_proved |-> TRUE],
                     [row |-> <<0, 1, 2, 3>>, is_proved |-> TRUE],
                     [row |-> <<0, 2, 1, 3>>, is_proved |-> FALSE] >> >>]

\* The false row groups that gen_false_row_groups finds in ExampleComp.
ExampleCompGroups ==
    GenFalseRowGroups(FlattenProvedRows(Expand(ExampleComp)).flattened_rows).false_rows

\* Three one-location groups at fragment 0, rows 4, 5 and 6.
ExampleSingletons ==
    {<<RowLocation(0, 4)>>, <<RowLocation(0, 5)>>, <<RowLocation(0, 6)>>}

\* The subsets of S of at most n elements.
RECURSIVE SubsetsUpTo(_, _)
SubsetsUpTo(S, n) ==
    IF n = 0
    THEN {{}}
    ELSE LET smaller == SubsetsUpTo(S, n - 1)
         IN  smaller \cup {T \cup {x} : T \in smaller, x \in S}

CoalesceInit ==
    /\ groups_in \in SubsetsUpTo(CoalesceGroups, MaxGroups)
                         \cup {ExampleCompGroups, ExampleSingletons}
    /\ coalesced = None
    /\ CtorIdle
    /\ AlgIdle
    /\ ClosureIdle
    /\ DeriveIdle
    /\ ExpandIdle
    /\ StateIdle

\* Self::coalesce_false_row_groups(false_rows), false_rows being the groups in
\* the order the HashSet yields them.
CallCoalesce ==
    /\ coalesced = None
    /\ \E false_rows \in IntoIter(groups_in) :
         coalesced' = CoalesceFalseRowGroups(false_rows)
    /\ UNCHANGED <<groups_in, ctorVars, algVars, closureVars, deriveVars, expandVars, stateVars>>

CoalesceNext == CallCoalesce

SpecCoalesce == CoalesceInit /\ [][CoalesceNext]_vars

-----------------------------------------------------------------------------
(* SpecExpand: ExpandedRow::new, applied to one row and one part-head list  *)

\* The doc example of music_highlights: the row 21345678 under the part heads
\* 12345678, 18234567, 17823456, ...
MusicExampleRow == <<1, 0, 2, 3, 4, 5, 6, 7>>

MusicExampleParts ==
    <<Rounds(8)>> \o SubSeq(ClosureFrom(ClosureExample, ClosureExample), 1, 6)

\* Rows of eight bells with runs at the front, at the back and at both ends:
\* 12348765, 43215678, 65871234, 12345678 and 87654321.
MusicExampleRows ==
    { MusicExampleRow, <<0, 1, 2, 3, 7, 6, 5, 4>>, <<3, 2, 1, 0, 4, 5, 6, 7>>,
      <<5, 4, 7, 6, 0, 1, 2, 3>>, Rounds(8), Reverse(Rounds(8)) }

\* The cyclic shift 234..1 of a stage.
Rotation(stage) == [i \in 1..stage |-> i % stage]

\* The part-head lists of a stage: rounds alone, the closure of the cyclic
\* shift, the same group with rounds first, and backrounds before rounds.
PartHeadsOf(stage) ==
    LET shifts == ClosureFrom(Rotation(stage), Rotation(stage)) IN
    { <<Rounds(stage)>>,
      shifts,
      <<Rounds(stage)>> \o SubSeq(shifts, 1, Len(shifts) - 1),
      <<Reverse(Rounds(stage)), Rounds(stage)>> }

ExpandInit ==
    /\ \E stage \in 1..MaxMusicStage :
         /\ exp_row \in {r \in RowsUpTo(stage) : Stage(r) = stage}
         /\ exp_part_heads \in PartHeadsOf(stage)
       \/ /\ exp_row \in MusicExampleRows
          /\ exp_part_heads \in PartHeadsOf(8) \cup {MusicExampleParts}
    /\ expanded = None
    /\ CtorIdle
    /\ AlgIdle
    /\ ClosureIdle
    /\ DeriveIdle
    /\ CoalesceIdle
    /\ StateIdle

\* ExpandedRow::new(&row, .., &part_heads, is_proved)
CallExpandedRowNew ==
    /\ expanded = None
    /\ \E is_proved \in BOOLEAN :
         expanded' = ExpandedRowNew(exp_row, exp_part_heads, is_proved)
    /\ UNCHANGED <<exp_row, exp_part_heads, ctorVars, algVars, closureVars, deriveVars,
                   coalesceVars, stateVars>>

ExpandNext == CallExpandedRowNew

SpecExpand == ExpandInit /\ [][ExpandNext]_vars

-----------------------------------------------------------------------------
(* Claims about the checked constructors (Spec)                             *)

\* The bell sequence the constructor validates.
InputBells == IF src.kind = "vec" THEN src.bells ELSE FilterMapBells(src.chars)

\* s is a bijection onto 0..Len(s)-1: every index below the length appears
\* exactly once.
IsBijection(s) ==
    \A k \in 0..(Len(s) - 1) : Cardinality({i \in 1..Len(s) : s[i] = k}) = 1

\* C2: a checked constructor (parse, from_iter_checked, from_vec) returns
\* Ok(row), with the bells it was given, if and only if the bell sequence is a
\* bijection onto 0..len; every other sequence is rejected with DuplicateBell
\* or BellOutOfStage, so there is no third outcome.
C2_CheckedConstructorsExact ==
    ctor # "none" =>
        /\ (made.kind = "Ok") <=> IsBijection(InputBells)
        /\ made.kind = "Ok" => made.row = InputBells
        /\ made.kind # "Ok" => made.kind \in {"DuplicateBell", "BellOutOfStage"}

C2_Witness ==
    /\ ctor = "parse"
    /\ src = TextArg(<<"3", "|", "2", "|", "1">>)
    /\ made = Ok(<<2, 1, 0>>)

\* The bell at position i is out of the stage or was seen earlier in the scan.
Offending(s, i) == s[i] >= Len(s) \/ \E j \in 1..(i - 1) : s[j] = s[i]

FirstOffending(s) ==
    CHOOSE i \in 1..Len(s) : Offending(s, i) /\ \A j \in 1..(i - 1) : ~Offending(s, j)

\* C3: for an invalid bell sequence the error is that of the first offending
\* bell in scan order: BellOutOfStage(bell, len) if its index is >= len,
\* DuplicateBell(bell) if it was seen earlier; 112345 gives DuplicateBell(bell
\* 1) and 12745 gives BellOutOfStage(bell 7, stage 5).
C3_FirstOffendingBellReported ==
    /\ (ctor # "none" /\ ~IsBijection(InputBells)) =>
           LET bell == InputBells[FirstOffending(InputBells)] IN
           made = IF bell >= Len(InputBells)
                  THEN BellOutOfStage(bell, Len(InputBells))
                  ELSE DuplicateBell(bell)
    /\ (ctor = "parse" /\ src = TextArg(<<"1", "1", "2", "3", "4", "5">>)) =>
           made = DuplicateBell(0)
    /\ (ctor = "parse" /\ src = TextArg(<<"1", "2", "7", "4", "5">>)) =>
           made = BellOutOfStage(6, 5)

C3_Witness ==
    /\ ctor = "parse"
    /\ src = TextArg(<<"1", "2", "7", "4", "5">>)
    /\ made = BellOutOfStage(6, 5)

-----------------------------------------------------------------------------
(* Claims about multiplication and inversion (SpecAlg)                      *)

\* C4: for two Rows of the same Stage, r1 * r2 succeeds, its bell at every
\* position i is r1[r2[i]], and the product is a valid Row of that Stage.
C4_MulPermutes ==
    (op = "mul" /\ Stage(a) = Stage(b)) =>
        /\ out.kind = "Ok"
        /\ Len(out.row) = Stage(a)
        /\ \A i \in 1..Stage(a) : out.row[i] = a[b[i] + 1]
        /\ IsBijection(out.row)

C4_Witness ==
    /\ op = "mul"
    /\ a = <<0, 2, 3, 1, 4, 5, 6, 7>>
    /\ b = <<3, 2, 1, 0, 6, 4, 5, 7>>
    /\ out = Ok(<<1, 3, 2, 0, 6, 4, 5, 7>>)

\* C5: the checked multiplication of two Rows whose Stages differ returns
\* IncompatibleStages with lhs_stage and rhs_stage the stages of the two
\* operands, and no Row; for equal Stages it never returns this error.
C5_StageMismatchReported ==
    op = "mul" =>
        IF Stage(a) # Stage(b)
        THEN out = [kind |-> "IncompatibleStages",
                    lhs_stage |-> Stage(a), rhs_stage |-> Stage(b)]
        ELSE out.kind # "IncompatibleStages"

C5_Witness ==
    /\ op = "mul"
    /\ a = <<0, 2, 3, 1, 4, 5, 6, 7>>
    /\ b = <<2, 1, 0>>
    /\ out = [kind |-> "IncompatibleStages", lhs_stage |-> 8, rhs_stage |-> 3]

\* C6: mul_unchecked produces a Row for every pair of valid Rows, also when
\* the Stages differ in either direction; it never fails, and the result has
\* as many bells as the right-hand Row.
C6_MulUncheckedNeverFails ==
    op = "mul_unchecked" => (out.kind = "Row" /\ Len(out.row) = Stage(b))

\* C7: the inverse of a Row r is a valid Row of the same Stage, and
\* r * !r = !r * r = rounds.
C7_InverseIsTwoSided ==
    op = "not" =>
        /\ Len(out.row) = Stage(a)
        /\ IsBijection(out.row)
        /\ Mul(a, out.row) = Ok(Rounds(Stage(a)))
        /\ Mul(out.row, a) = Ok(Rounds(Stage(a)))

C7_Witness ==
    /\ op = "not"
    /\ a = <<0, 2, 4, 1, 3, 5>>
    /\ out.row = <<0, 3, 1, 4, 2, 5>>

\* C8: multiplication is associative: for Rows a, b, c of the same Stage,
\* (a * b) * c = a * (b * c).
C8_MulAssociative ==
    (op = "mul_three" /\ Stage(a) = Stage(b) /\ Stage(b) = Stage(c)) =>
        /\ out.left.kind = "Ok"
        /\ out.left = out.right

C8_Witness ==
    /\ op = "mul_three"
    /\ a = <<1, 0, 2>>
    /\ b = <<0, 2, 1>>
    /\ c = <<1, 2, 0>>
    /\ out.left = Ok(<<2, 0, 1>>)
    /\ out.right = Ok(<<2, 0, 1>>)

\* C11: fast_hash is collision-free within the stated bounds: two distinct
\* valid Rows of the same Stage, of Stage at most 6 on a 16-bit word, are
\* hashed to different values.
C11_FastHashCollisionFree ==
    (op = "fast_hash" /\ a # b /\ Stage(a) = Stage(b) /\ Stage(a) <= 6) =>
        /\ out.left.kind = "Hash"
        /\ out.right.kind = "Hash"
        /\ out.left.value # out.right.value

-----------------------------------------------------------------------------
(* Claims about the closure (SpecClosure, FairClosure)                      *)

\* C9: Row::closure terminates: once called, the loop reaches rounds and
\* returns.
C9_ClosureTerminates == (cpc = "loop") ~> (cpc = "done")

C9_Witness ==
    /\ cpc = "done"
    /\ cself = <<1, 2, 3, 0>>
    /\ Len(closure) = 4

RECURSIVE Factorial(_)
Factorial(n) == IF n = 0 THEN 1 ELSE n * Factorial(n - 1)

\* C10: closure(r) is non-empty, starts with r, ends with rounds of the stage
\* of r, holds rounds nowhere earlier, and its length divides the factorial of
\* the stage; closure(18234567) has 7 elements, the 7th being 12345678, and
\* closure(rounds) is rounds alone.
C10_ClosureShape ==
    cpc = "done" =>
        /\ Len(closure) >= 1
        /\ closure[1] = cself
        /\ closure[Len(closure)] = Rounds(Stage(cself))
        /\ \A i \in 1..(Len(closure) - 1) : closure[i] # Rounds(Stage(cself))
        /\ Factorial(Stage(cself)) % Len(closure) = 0
        /\ cself = ClosureExample =>
               (Len(closure) = 7 /\ closure[7] = <<0, 1, 2, 3, 4, 5, 6, 7>>)
        /\ cself = Rounds(Stage(cself)) => closure = <<cself>>

C10_Witness ==
    /\ cpc = "done"
    /\ cself = ClosureExample
    /\ closure[2] = <<0, 6, 7, 1, 2, 3, 4, 5>>
    /\ Len(closure) = 7

-----------------------------------------------------------------------------
(* Claims about the truth prover (SpecProve)                                *)

\* The origins of the composition: every part of every row of every fragment.
Origins ==
    {RowOrigin(p, fr[1] - 1, fr[2] - 1) :
        p \in 0..(Len(skel.part_heads) - 1), fr \in Positions(derived.generated_rows)}

ShouldBeProven(o) == derived.generated_rows[o.frag + 1][o.row + 1].is_proved

RealizedRow(o) == derived.generated_rows[o.frag + 1][o.row + 1].rows[o.part + 1]

\* The RowLocations of the reported falseness groups.
ReportedLocations == UNION {{g[i] : i \in 1..Len(g)} : g \in derived.false_rows}

\* C1: a RowLocation (f, r) appears in some reported falseness group if and
\* only if skeleton row (f, r) is marked "should be proven" and one of its
\* realized rows equals the realized row of a different origin that is also
\* marked proven; rows not marked proven appear in no group and make no other
\* row false.
C1_TruthProverExact ==
    derived # None =>
        LET origins == Origins
            proven == {o \in origins : ShouldBeProven(o)}
            row_of == [o \in proven |-> RealizedRow(o)]
            false_locations ==
                {LocationFrom(o1) :
                    o1 \in {o \in proven : \E o2 \in proven : o2 # o /\ row_of[o2] = row_of[o]}}
            locations == {LocationFrom(o) : o \in origins}
            reported == ReportedLocations
        IN  /\ reported \subseteq locations
            /\ \A l \in locations : (l \in reported) <=> (l \in false_locations)

\* Two different proved rows are false against each other in a two-part
\* composition, while an unproved row that realizes to the same Row is not
\* reported.
C1_Witness ==
    /\ derived # None
    /\ skel.part_heads = <<<<1, 0, 2>>, <<0, 1, 2>>>>
    /\ \E g \in derived.false_rows : Len(g) = 2 /\ g[1] # g[2]
    /\ \E o \in Origins, o2 \in Origins :
           /\ ~ShouldBeProven(o)
           /\ ShouldBeProven(o2)
           /\ RealizedRow(o) = RealizedRow(o2)
           /\ LocationFrom(o2) \in ReportedLocations
           /\ LocationFrom(o) \notin ReportedLocations

\* C12: falseness groups are deduplicated by content: every run of two or
\* more equal proved Rows is reported as exactly one group, the sorted list of
\* the RowLocations of its origins; no two reported groups hold the same
\* RowLocations, so a pair of skeleton rows that is false in the same way in
\* every part is reported once and not once per part.
C12_GroupsDeduplicated ==
    derived # None =>
        LET proven == {o \in Origins : ShouldBeProven(o)}
            row_of == [o \in proven |-> RealizedRow(o)]
            values == {row_of[o] : o \in proven}
            locations == {RowLocation(o.frag, o.row) : o \in proven}
            mult == [v \in values |-> [l \in locations |->
                        Cardinality({o \in proven :
                            row_of[o] = v /\ RowLocation(o.frag, o.row) = l})]]
            false_values == {v \in values : Cardinality({o \in proven : row_of[o] = v}) > 1}
            Proj(g) == [i \in 1..Len(g) |-> RowLocation(g[i].frag, g[i].row)]
            Matches(g, v) ==
                /\ \A i \in 1..Len(g) : Proj(g)[i] \in locations
                /\ \A l \in locations :
                       Cardinality({i \in 1..Len(g) : Proj(g)[i] = l}) = mult[v][l]
        IN  /\ \A v \in false_values :
                   Cardinality({g \in derived.false_rows : Matches(g, v)}) = 1
            /\ \A g \in derived.false_rows :
                   /\ \E v \in false_values : Matches(g, v)
                   /\ \A i \in 1..(Len(g) - 1) : LocLe(g[i], g[i + 1])
            /\ \A g1, g2 \in derived.false_rows : Proj(g1) = Proj(g2) => g1 = g2

\* With the two part heads 213 and 123 (a group), rows 0 and 1 of fragment 0
\* are false against each other in part 0 and again, as another Row, in part
\* 1, and one group is reported.
C12_Witness ==
    /\ derived # None
    /\ skel.part_heads = <<<<1, 0, 2>>, <<0, 1, 2>>>>
    /\ derived.false_rows = {<<RowLocation(0, 0), RowLocation(0, 1)>>}
    /\ RealizedRow(RowOrigin(0, 0, 0)) = RealizedRow(RowOrigin(0, 0, 1))
    /\ RealizedRow(RowOrigin(1, 0, 0)) = RealizedRow(RowOrigin(1, 0, 1))
    /\ RealizedRow(RowOrigin(0, 0, 0)) # RealizedRow(RowOrigin(1, 0, 0))
    /\ derived.num_false_rows = 4

-----------------------------------------------------------------------------
(* Claims about the range coalescer (SpecProve, SpecCoalesce)               *)

\* The FalseRowRanges of all the fragments of the DerivedState.
DerivedRanges ==
    UNION {{derived.annot_frags[f].false_row_ranges[n] :
               n \in 1..Len(derived.annot_frags[f].false_row_ranges)} :
           f \in 1..Len(derived.annot_frags)}

\* C13: the false-group count of the stats (num_false_groups) equals the
\* number of meta-groups emitted, that is the number of group ids the
\* FalseRowRanges carry, also for a composition without falseness, whose count
\* is 0.
C13_FalseGroupCountIsEmitted ==
    derived # None =>
        derived.stats.num_false_groups = Cardinality({r.group : r \in DerivedRanges})

\* The groups handed to the coalescer in sorted order: the k-th is the group
\* with k groups at or below it.
SortedGroupsIn ==
    [k \in 1..Cardinality(groups_in) |->
        CHOOSE g \in groups_in : Cardinality({h \in groups_in : GroupLe(h, g)}) = k]

\* Two groups are adjacent: equal cardinality, and every pair of RowLocations
\* shares the fragment and differs in row index by exactly 1.
Adjacent(g1, g2) ==
    /\ Len(g1) = Len(g2)
    /\ \A j \in 1..Len(g1) :
         /\ g1[j].frag = g2[j].frag
         /\ g1[j].row - g2[j].row \in {1, -1}

\* The meta-group of the i-th sorted group: the number of non-adjacent
\* boundaries before it.
MetaGroupOf(sorted, i) ==
    Cardinality({n \in 2..i : ~Adjacent(sorted[n - 1], sorted[n])})

NumMetaGroups(sorted) ==
    IF sorted = <<>> THEN 0 ELSE MetaGroupOf(sorted, Len(sorted)) + 1

MinOf(S) == CHOOSE x \in S : \A y \in S : x <= y

MaxOf(S) == CHOOSE x \in S : \A y \in S : x >= y

\* C14: every FalseRowRange emitted for a meta-group has start = the minimum
\* and end = the maximum of the row indices its member groups have at one
\* paired position in that fragment, and start <= end, for every set of
\* groups, also when the row indices at a position do not move monotonically
\* from the first member group to the last.
C14_RangeIsMinMaxOfMetaGroup ==
    coalesced # None =>
        /\ coalesced.kind = "Coalesced"
        /\ LET sorted == SortedGroupsIn
               ranges == coalesced.ranges_by_frag
           IN  \A f \in DOMAIN ranges : \A n \in 1..Len(ranges[f]) :
                   LET r == ranges[f][n]
                       members == {i \in 1..Len(sorted) : MetaGroupOf(sorted, i) = r.group}
                   IN  /\ r.start <= r.end
                       /\ members # {}
                       /\ \E j \in 1..Len(sorted[MinOf(members)]) :
                            /\ sorted[MinOf(members)][j].frag = f
                            /\ r.start = MinOf({sorted[i][j].row : i \in members})
                            /\ r.end = MaxOf({sorted[i][j].row : i \in members})

\* C15: walking the groups in sorted order, consecutive groups are in the same
\* meta-group exactly when they are adjacent: the ranges carry the ids 0, 1,
\* 2, ... of the meta-groups in emission order, and the range of the first
\* paired position of meta-group k runs from the row of its first member group
\* to the row of its last. Three one-location groups at fragment 0, rows 4, 5
\* and 6 yield the single range {fragment 0, start 4, end 6}.
C15_AdjacentGroupsShareId ==
    coalesced # None =>
        /\ coalesced.kind = "Coalesced"
        /\ LET sorted == SortedGroupsIn
               ranges == coalesced.ranges_by_frag
               num == NumMetaGroups(sorted)
           IN  /\ UNION {{ranges[f][n].group : n \in 1..Len(ranges[f])} : f \in DOMAIN ranges}
                      = 0..(num - 1)
               /\ \A f \in DOMAIN ranges : \A n \in 1..(Len(ranges[f]) - 1) :
                      ranges[f][n].group <= ranges[f][n + 1].group
               /\ \A k \in 0..(num - 1) :
                      LET members == {i \in 1..Len(sorted) : MetaGroupOf(sorted, i) = k}
                          first == sorted[MinOf(members)][1]
                          last == sorted[MaxOf(members)][1]
                          r == FalseRowRange(first.row, last.row, k)
                      IN  /\ first.frag \in DOMAIN ranges
                          /\ \E n \in 1..Len(ranges[first.frag]) : ranges[first.frag][n] = r
                          /\ last.row - first.row = Cardinality(members) - 1
        /\ groups_in = ExampleSingletons =>
               /\ DOMAIN coalesced.ranges_by_frag = {0}
               /\ coalesced.ranges_by_frag[0] = <<FalseRowRange(4, 6, 0)>>

C15_Witness ==
    /\ coalesced # None
    /\ groups_in = ExampleSingletons
    /\ coalesced.ranges_by_frag[0] = <<FalseRowRange(4, 6, 0)>>
    /\ coalesced.num_false_groups = 1

\* The number of ranges that meta-group k has in fragment f.
RangesOfMetaGroupIn(k, f) ==
    Cardinality({n \in 1..Len(coalesced.ranges_by_frag[f]) :
                    coalesced.ranges_by_frag[f][n].group = k})

\* The fragments spanned by the i-th sorted group.
FragsOfGroup(g) == {g[j].frag : j \in 1..Len(g)}

\* C16 as stated: each emitted meta-group contributes exactly one
\* FalseRowRange to each fragment it spans, also when several RowLocations of
\* its groups lie in the same fragment.
C16_OneRangePerFragment ==
    coalesced # None =>
        /\ coalesced.kind = "Coalesced"
        /\ LET sorted == SortedGroupsIn IN
           \A i \in 1..Len(sorted) : \A f \in FragsOfGroup(sorted[i]) :
               /\ f \in DOMAIN coalesced.ranges_by_frag
               /\ RangesOfMetaGroupIn(MetaGroupOf(sorted, i), f) = 1

\* C16 amended: each emitted meta-group contributes exactly one FalseRowRange
\* per paired position of its groups, to the fragment of that position: a
\* fragment that holds n of the RowLocations of each member group gets n
\* ranges of the meta-group, and a fragment it does not span gets none.
C16_OneRangePerPosition ==
    coalesced # None =>
        /\ coalesced.kind = "Coalesced"
        /\ LET sorted == SortedGroupsIn IN
           /\ \A i \in 1..Len(sorted) : \A f \in FragsOfGroup(sorted[i]) :
                  /\ f \in DOMAIN coalesced.ranges_by_frag
                  /\ RangesOfMetaGroupIn(MetaGroupOf(sorted, i), f)
                         = Cardinality({j \in 1..Len(sorted[i]) : sorted[i][j].frag = f})
           /\ \A f \in DOMAIN coalesced.ranges_by_frag :
              \A n \in 1..Len(coalesced.ranges_by_frag[f]) :
                  \E i \in 1..Len(sorted) :
                      /\ MetaGroupOf(sorted, i) = coalesced.ranges_by_frag[f][n].group
                      /\ f \in FragsOfGroup(sorted[i])

\* A meta-group of two groups of two rows each, all in fragment 0, has two
\* ranges there.
C16_Witness ==
    /\ coalesced # None
    /\ groups_in = { <<RowLocation(0, 0), RowLocation(0, 2)>>,
                     <<RowLocation(0, 1), RowLocation(0, 3)>> }
    /\ coalesced.ranges_by_frag[0] = <<FalseRowRange(0, 1, 0), FalseRowRange(2, 3, 0)>>

-----------------------------------------------------------------------------
(* Claims about the fragment linker (SpecProve)                             *)

\* The realization of a skeleton row in part 0: position i holds the bell
\* that the first part head has at the place row[i].
PartZeroOf(row) == [i \in 1..Len(row) |-> skel.part_heads[1][row[i] + 1]]

\* The part-0 realization of the last (leftover) row of fragment f and of the
\* first row of fragment g, the fragments counted from 0.
LeftoverOfFrag(f) == PartZeroOf(skel.frags[f + 1][Len(skel.frags[f + 1])].row)

FirstOfFrag(g) == PartZeroOf(skel.frags[g + 1][1].row)

\* C17: the fragment linker records a FragLink (from f, to g) if and only if
\* the part-0 realization of the leftover row of f equals the part-0
\* realization of the first row of g, for every ordered pair of fragments,
\* f = g included, and exactly once per matching pair; which links exist is
\* decided by part 0 alone.
C17_LinkIffLeftoverMeetsFirst ==
    derived # None =>
        LET frags == 0..(Len(skel.frags) - 1)
            links == derived.frag_links
            leftover == [f \in frags |-> LeftoverOfFrag(f)]
            first == [g \in frags |-> FirstOfFrag(g)]
            pairs == [k \in 1..Len(links) |-> <<links[k].from, links[k].to>>]
        IN  /\ \A k \in 1..Len(links) : links[k].from \in frags /\ links[k].to \in frags
            /\ \A k1, k2 \in 1..Len(links) : pairs[k1] = pairs[k2] => k1 = k2
            /\ \A f \in frags, g \in frags :
                   (\E k \in 1..Len(links) : pairs[k] = <<f, g>>) <=> (leftover[f] = first[g])

\* Two fragments in two parts: the first, of two different rows, links onto
\* the second, which is one row and so links onto itself; nothing links onto
\* the first.
C17_Witness ==
    /\ derived # None
    /\ Len(skel.part_heads) = 2
    /\ Len(skel.frags) = 2
    /\ Len(skel.frags[1]) = 2
    /\ {<<derived.frag_links[k].from, derived.frag_links[k].to>> :
           k \in 1..Len(derived.frag_links)} = {<<0, 1>>, <<1, 1>>}

\* The Row on which the k-th FragLink matched.
LinkRow(k) == LeftoverOfFrag(derived.frag_links[k].from)

\* C18: two FragLinks carry the same group id if and only if they match on
\* the same Row; the ids are 0, 1, 2, ... in order of first discovery; the
\* bottom (top) group recorded for a fragment is the group of every link
\* leaving (entering) it, and is absent when there is no such link.
C18_LinkGroupsFollowRows ==
    derived # None =>
        LET links == derived.frag_links
            tips == [f \in 1..Len(derived.annot_frags) |-> derived.annot_frags[f].link_groups]
            row_of == [k \in 1..Len(links) |-> LinkRow(k)]
        IN  /\ \A k \in 1..Len(links) :
                   LET seen == {row_of[j] : j \in 1..(k - 1)} IN
                   /\ row_of[k] \notin seen => links[k].group = Cardinality(seen)
                   /\ \A j \in 1..(k - 1) :
                          (links[j].group = links[k].group) <=> (row_of[j] = row_of[k])
            /\ \A f \in 1..Len(tips) :
                   LET leaving == {k \in 1..Len(links) : links[k].from = f - 1}
                       entering == {k \in 1..Len(links) : links[k].to = f - 1}
                   IN  /\ leaving = {} => tips[f].link_group_bottom = None
                       /\ \A k \in leaving :
                              tips[f].link_group_bottom = SomeGroup(links[k].group)
                       /\ entering = {} => tips[f].link_group_top = None
                       /\ \A k \in entering :
                              tips[f].link_group_top = SomeGroup(links[k].group)

\* Three fragments of one row each, the first and the third the same row:
\* four links of group 0 among the first and the third, one of group 1.
C18_Witness ==
    /\ derived # None
    /\ Len(skel.frags) = 3
    /\ [k \in 1..Len(derived.frag_links) |-> derived.frag_links[k].group] = <<0, 0, 1, 0, 0>>
    /\ derived.frag_links[2] = FragLink(0, 2, 0)
    /\ derived.annot_frags[2].link_groups =
           [link_group_top |-> SomeGroup(1), link_group_bottom |-> SomeGroup(1)]

-----------------------------------------------------------------------------
(* Claims about row expansion and the music highlighter (SpecExpand)        *)

\* C19: row expansion yields exactly one realized Row per part head, in
\* part-head order; the Row of part p holds part_heads[p][skeleton_row[i]] at
\* every position i, and is a valid Row of the shared Stage.
C19_OneRealizedRowPerPartHead ==
    expanded # None =>
        /\ Len(expanded.rows) = Len(exp_part_heads)
        /\ \A p \in 1..Len(exp_part_heads) :
               /\ Len(expanded.rows[p]) = Stage(exp_row)
               /\ \A i \in 1..Stage(exp_row) :
                      expanded.rows[p][i] = exp_part_heads[p][exp_row[i] + 1]
               /\ IsBijection(expanded.rows[p])

\* 21345678 in the part with part head 18234567 is 81234567.
C19_Witness ==
    /\ expanded # None
    /\ exp_row = MusicExampleRow
    /\ exp_part_heads = MusicExampleParts
    /\ Len(expanded.rows) = 7
    /\ expanded.rows[2] = <<7, 0, 1, 2, 3, 4, 5, 6>>
    /\ expanded.rows[7] = <<2, 0, 3, 4, 5, 6, 7, 1>>

\* C20: for each part p, with F the front run length and B the back run
\* length of its realized row at Stage S, position i lists part p exactly once
\* if (F >= 4 and i < F) or (B >= 4 and i >= max(F, S - B)) and does not list
\* it otherwise; no part is listed twice at a position, also when the two runs
\* overlap. The row 21345678 under the part heads 12345678, 18234567, ... has
\* the highlights of the doc example.
C20_MusicListsPartOnce ==
    expanded # None =>
        LET S == Stage(exp_row)
            music == expanded.music_highlights
        IN  /\ Len(music) = S
            /\ \A i \in 0..(S - 1) :
                   /\ \A n \in 1..Len(music[i + 1]) :
                          music[i + 1][n] \in 0..(Len(expanded.rows) - 1)
                   /\ \A p \in 0..(Len(expanded.rows) - 1) :
                          LET F == RunLen(expanded.rows[p + 1])
                              B == RunLen(Reverse(expanded.rows[p + 1]))
                              far == IF F >= S - B THEN F ELSE S - B
                          IN  Cardinality({n \in 1..Len(music[i + 1]) : music[i + 1][n] = p})
                                  = IF (F >= 4 /\ i < F) \/ (B >= 4 /\ i >= far)
                                    THEN 1 ELSE 0
            /\ (exp_row = MusicExampleRow /\ exp_part_heads = MusicExampleParts) =>
                   music = << <<>>, <<1>>, <<0, 1>>, <<0, 1, 2>>, <<0, 1, 2, 3>>,
                              <<0, 1, 2, 3>>, <<0, 1, 2, 3>>, <<0, 1, 2, 3>> >>

\* Rounds on 8 as the only part: the front run and the back run are both the
\* whole row, and every position lists part 0 once.
C20_Witness ==
    /\ expanded # None
    /\ exp_row = Rounds(8)
    /\ exp_part_heads = <<Rounds(8)>>
    /\ expanded.music_highlights = [i \in 1..8 |-> <<0>>]

-----------------------------------------------------------------------------
(* Claims about the order of the groups and the assertions of add_ranges    *)
(* (SpecCoalesce)                                                           *)

\* C24: the result of the coalescer does not depend on the order in which the
\* HashSet of false row groups is iterated: every permutation of the groups
\* gives the ranges per fragment (their order and group ids included) and the
\* group count that the call returned, and from_spec has one result only for
\* the example composition.
C24_OrderIndependent ==
    coalesced # None =>
        /\ \A false_rows \in IntoIter(groups_in) :
               CoalesceFalseRowGroups(false_rows) = coalesced
        /\ groups_in = ExampleCompGroups => Cardinality(FromSpec(ExampleComp)) = 1

\* Three groups no two of which are adjacent: six orders, three meta-groups.
C24_Witness ==
    /\ coalesced # None
    /\ Cardinality(groups_in) = 3
    /\ coalesced.kind = "Coalesced"
    /\ coalesced.num_false_groups = 3
    /\ Cardinality(IntoIter(groups_in)) = 6

\* C25: the two assertions of add_ranges never fail: the coalescer returns,
\* and the first and the last group of every meta-group have equal length and,
\* at every paired position, the same fragment index.
C25_AddRangesAssertionsHold ==
    coalesced # None =>
        /\ coalesced.kind # "Panic"
        /\ LET sorted == SortedGroupsIn IN
           \A k \in 0..(NumMetaGroups(sorted) - 1) :
               LET members == {i \in 1..Len(sorted) : MetaGroupOf(sorted, i) = k}
                   start == sorted[MinOf(members)]
                   end == sorted[MaxOf(members)]
               IN  /\ ~AddRangesPanics(start, end)
                   /\ Len(start) = Len(end)
                   /\ \A j \in 1..Len(start) : start[j].frag = end[j].frag

\* A meta-group of two groups that each span both fragments, next to a
\* one-location group whose row index is adjacent but whose length differs.
C25_Witness ==
    /\ coalesced # None
    /\ groups_in = { <<RowLocation(0, 0), RowLocation(1, 0)>>,
                     <<RowLocation(0, 1), RowLocation(1, 1)>>,
                     <<RowLocation(0, 2)>> }
    /\ coalesced.kind = "Coalesced"
    /\ coalesced.num_false_groups = 2

-----------------------------------------------------------------------------
(* The undo history (history.rs) and the State that caches the derivation   *)
(* of its current CompSpec (state/mod.rs)                                   *)

\* FullState::from_spec(&spec) and FullComp::from_spec(&spec): the derivations
\* of the spec (one for every iteration order of the HashSet of false rows).
FullStateFromSpec(spec) == FromSpec(spec)

\* FullState::update(&mut self, spec): the whole derivation is replaced.
FullStateUpdate(self, spec) == FullStateFromSpec(spec)

\* History::new(spec), `full_comp` being FullComp::from_spec(&spec).
HistoryNew(spec, full_comp) ==
    [history |-> <<spec>>, current_undo_index |-> 0, full_comp |-> full_comp]

\* History::undo: the History afterwards and the value returned.
HistoryUndo(self) ==
    IF self.current_undo_index = 0
    THEN [self |-> self, ret |-> FALSE]
    ELSE [self |-> [self EXCEPT !.current_undo_index = @ - 1], ret |-> TRUE]

\* Mutant: a redo at the most recent step wraps round to the oldest one.
HistoryRedo_Wrap(self) ==
    IF self.current_undo_index = Len(self.history) - 1
    THEN [self |-> [self EXCEPT !.current_undo_index = 0], ret |-> TRUE]
    ELSE [self |-> [self EXCEPT !.current_undo_index = @ + 1], ret |-> TRUE]

\* History::redo: the History afterwards and the value returned (the history
\* never is empty, so `len() - 1` does not underflow).
HistoryRedo(self) ==
    IF self.current_undo_index = Len(self.history) - 1
    THEN [self |-> self, ret |-> FALSE]
    ELSE [self |-> [self EXCEPT !.current_undo_index = @ + 1], ret |-> TRUE]

\* History::comp_spec: &self.history[self.current_undo_index]
HistoryCompSpec(self) == self.history[self.current_undo_index + 1]

\* History::full_comp
HistoryFullComp(self) == self.full_comp

\* The edits: closures that set the part heads, set the first row of the
\* first fragment, or flip its "should be proven" flag.
Edits ==
    {[kind |-> "set_part_heads", part_heads |-> ph] :
        ph \in {<<<<0, 1, 2>>>>, ClosureFrom(<<1, 2, 0>>, <<1, 2, 0>>)}}
        \cup {[kind |-> "set_row", row |-> r] : r \in {<<0, 1, 2>>, <<1, 0, 2>>}}
        \cup {[kind |-> "toggle_proved"]}

\* edit(&mut spec): the CompSpec afterwards.
ApplyEditTo(spec, edit) ==
    CASE edit.kind = "set_part_heads" -> [spec EXCEPT !.part_heads = edit.part_heads]
      [] edit.kind = "set_row" -> [spec EXCEPT !.frags[1][1].row = edit.row]
      [] edit.kind = "toggle_proved" ->
             [spec EXCEPT !.frags[1][1].is_proved = ~spec.frags[1][1].is_proved]

\* History::apply_edit(edit): the edit is applied to a clone of the current
\* CompSpec, the steps after the current one are dropped, and the clone becomes
\* the new current step; `full_comp` is FullComp::from_spec of it.
HistoryApplyEdit(self, edit, full_comp) ==
    [history |-> Append(SubSeq(self.history, 1, self.current_undo_index + 1),
                        ApplyEditTo(HistoryCompSpec(self), edit)),
     current_undo_index |-> self.current_undo_index + 1,
     full_comp |-> full_comp]

\* State::new(spec, music_classes), `full_state` being
\* FullState::from_spec(&spec) (music_groups is stored as given and never
\* written).
StateNew(spec, full_state, full_comp) ==
    [history |-> HistoryNew(spec, full_comp), full_state |-> full_state]

\* Mutant: the cached full_state is kept as it is.
RebuildFullState_Keep(self) == {self}

\* State::rebuild_full_state: the States it can leave.
RebuildFullState(self) ==
    {[self EXCEPT !.full_state = full_state] :
        full_state \in FullStateUpdate(self.full_state, HistoryCompSpec(self.history))}

\* State::undo: the States it can leave, each with the value returned.
StateUndo(self) ==
    LET undone == HistoryUndo(self.history)
        moved == [self EXCEPT !.history = undone.self]
        was_undo_possible == undone.ret
    IN  {[self |-> s, ret |-> was_undo_possible] :
            s \in IF was_undo_possible THEN RebuildFullState(moved) ELSE {moved}}

\* State::redo: the States it can leave, each with the value returned.
StateRedo(self) ==
    LET redone == HistoryRedo(self.history)
        moved == [self EXCEPT !.history = redone.self]
        was_redo_possible == redone.ret
    IN  {[self |-> s, ret |-> was_redo_possible] :
            s \in IF was_redo_possible THEN RebuildFullState(moved) ELSE {moved}}

\* State::apply_edit(edit): the States it can leave.
StateApplyEdit(self, edit) ==
    UNION {RebuildFullState([self EXCEPT !.history = HistoryApplyEdit(@, edit, full_comp)]) :
              full_comp \in FullStateFromSpec(ApplyEditTo(HistoryCompSpec(self.history), edit))}

-----------------------------------------------------------------------------
(* SpecState: a State made by State::new, then undo, redo and apply_edit    *)

\* The CompSpecs a State is made of: one fragment of two rows and its
\* leftover row, in one part or in three.
InitialSpecs ==
    {[part_heads |-> ph,
      frags |-> << << [row |-> <<1, 0, 2>>, is_proved |-> TRUE],
                      [row |-> <<0, 1, 2>>, is_proved |-> TRUE],
                      [row |-> <<1, 0, 2>>, is_proved |-> FALSE] >> >>] :
        ph \in {<<<<0, 1, 2>>>>, ClosureFrom(<<1, 2, 0>>, <<1, 2, 0>>)}}

StateInit ==
    /\ \E spec \in InitialSpecs :
         \E full_state \in FullStateFromSpec(spec), full_comp \in FullStateFromSpec(spec) :
           state = StateNew(spec, full_state, full_comp)
    /\ called = [op |-> "new", ret |-> TRUE]
    /\ CtorIdle
    /\ AlgIdle
    /\ ClosureIdle
    /\ DeriveIdle
    /\ CoalesceIdle
    /\ ExpandIdle

\* state.undo()
CallUndo ==
    /\ \E done \in StateUndo(state) :
         /\ state' = done.self
         /\ called' = [op |-> "undo", ret |-> done.ret]
    /\ UNCHANGED <<ctorVars, algVars, closureVars, deriveVars, coalesceVars, expandVars>>

\* state.redo()
CallRedo ==
    /\ \E done \in StateRedo(state) :
         /\ state' = done.self
         /\ called' = [op |-> "redo", ret |-> done.ret]
    /\ UNCHANGED <<ctorVars, algVars, closureVars, deriveVars, coalesceVars, expandVars>>

\* state.apply_edit(edit), while the history stays within MaxHistory steps.
CallApplyEdit ==
    /\ state.history.current_undo_index + 2 <= MaxHistory
    /\ \E edit \in Edits :
         /\ state' \in StateApplyEdit(state, edit)
         /\ called' = [op |-> "apply_edit", ret |-> TRUE]
    /\ UNCHANGED <<ctorVars, algVars, closureVars, deriveVars, coalesceVars, expandVars>>

StateNext == CallUndo \/ CallRedo \/ CallApplyEdit

SpecState == StateInit /\ [][StateNext]_vars

-----------------------------------------------------------------------------
(* Claims about the undo history and the State (SpecState)                  *)

\* The cached full_state is a derivation of the CompSpec selected in the
\* history.
FullStateIsCurrent(s) ==
    s.full_state \in FullStateFromSpec(HistoryCompSpec(s.history))

\* C21: after any sequence of undo, redo and apply_edit calls on a State the
\* cached full_state is the derivation of history.comp_spec(), and a refused
\* undo or redo (one that returns false) changes neither the selected spec nor
\* full_state.
C21_FullStateFollowsHistory ==
    /\ [](state # None => FullStateIsCurrent(state))
    /\ [][(called'.op \in {"undo", "redo"} /\ called'.ret = FALSE) =>
             /\ HistoryCompSpec(state'.history) = HistoryCompSpec(state.history)
             /\ state'.full_state = state.full_state]_vars

\* An undo that went back from an edited spec to a different one, with the
\* full_state rebuilt for it.
C21_Witness ==
    /\ state # None
    /\ called = [op |-> "undo", ret |-> TRUE]
    /\ state.history.current_undo_index + 2 <= Len(state.history.history)
    /\ HistoryCompSpec(state.history)
           # state.history.history[state.history.current_undo_index + 2]
    /\ FullStateIsCurrent(state)
    /\ state.full_state
           \notin FullStateFromSpec(state.history.history[state.history.current_undo_index + 2])

\* C22: undo returns false exactly when the cursor is at step 0 and then
\* leaves it there, otherwise moves it back by one and returns true; redo
\* returns false exactly when the cursor is at step len - 1 and then leaves it
\* there, otherwise moves it forward by one; neither changes the list of
\* specs, and the cursor always is an index into it.
C22_UndoRedoMoveCursor ==
    /\ [](state # None =>
             state.history.current_undo_index \in 0..(Len(state.history.history) - 1))
    /\ [][LET before == state.history
              after == state'.history
          IN  /\ called'.op = "undo" =>
                    /\ called'.ret = (before.current_undo_index # 0)
                    /\ after.current_undo_index
                           = IF before.current_undo_index = 0
                             THEN 0
                             ELSE before.current_undo_index - 1
                    /\ after.history = before.history
              /\ called'.op = "redo" =>
                    /\ called'.ret = (before.current_undo_index # Len(before.history) - 1)
                    /\ after.current_undo_index
                           = IF before.current_undo_index = Len(before.history) - 1
                             THEN before.current_undo_index
                             ELSE before.current_undo_index + 1
                    /\ after.history = before.history]_vars

\* A redo refused at the most recent of three steps.
C22_Witness ==
    /\ state # None
    /\ called = [op |-> "redo", ret |-> FALSE]
    /\ Len(state.history.history) = 3
    /\ state.history.current_undo_index = 2

\* C23: in every state of a History the stored full_comp is the derivation of
\* the spec at current_undo_index: History::full_comp() is the derivation of
\* History::comp_spec().
C23_FullCompIsCurrent ==
    state # None =>
        HistoryFullComp(state.history) \in FullStateFromSpec(HistoryCompSpec(state.history))

====
